---- MODULE Spec2Model ----
(***************************************************************************)
(* ChunkType (src/src/chunk_type.rs): the 4-byte chunk type identifier of  *)
(* a PNG-style container, its two constructors (TryFrom<[u8; 4]> and       *)
(* FromStr), its predicates, bytes() and its Display rendering.            *)
(*                                                                         *)
(* The type is an immutable value, so the state machine is a client of the *)
(* library: it builds one identifier `chunk` with either constructor, then *)
(* calls the methods on it, or builds a second identifier `other` and      *)
(* compares the two.  A [u8; 4] is a function on 0..3 (the source's        *)
(* indices), a byte slice is a sequence of bytes, a &str / String is a     *)
(* sequence of Unicode scalar values whose bytes are its UTF-8 encoding.   *)
(***************************************************************************)
EXTENDS Integers, Sequences, FiniteSets

VARIABLES chunk, src, other, osrc, last

vars == <<chunk, src, other, osrc, last>>

(* ------------------------------ bounds -------------------------------- *)

\* Longest text token, in characters, handed to from_str.
MaxTextLen == 5

\* The byte values raw inputs are drawn from: NUL (control, bit 5 clear),
\* '1' (non-letter, bit 5 set), 'A', 'Z', '[' (non-letter, bit 5 clear),
\* 'a', 'z', DEL (0x7F), and the
\* two bytes 0xA9 and 0xC3 (C3 A9 is the UTF-8 encoding of U+00E9; either
\* byte alone is malformed).
SampleBytes == {0, 49, 65, 90, 91, 97, 122, 127, 169, 195}

\* The characters text tokens are drawn from: 'A', 'Z', 'a', 'z', '1', '[',
\* U+00E9 (2 bytes), U+20AC (3 bytes), U+1F600 (4 bytes).
SampleChars == {65, 90, 97, 122, 49, 91, 233, 8364, 128512}

\* The values that replace one position of the first input to form the
\* input of the second identifier.
CmpBytes == {65, 97}

Idx == 0..3

ByteArrays == [Idx -> SampleBytes]

Texts == UNION {[1..n -> SampleChars] : n \in 0..MaxTextLen}

(* ------------------------- Option and Result -------------------------- *)

None == [tag |-> "None"]

Some(x) == [tag |-> "Some", val |-> x]

Ok(x) == [tag |-> "Ok", val |-> x]

Err(e) == [tag |-> "Err", err |-> e]

Panic == [tag |-> "Panic"]

NoCall == [op |-> "none"]

(* --------------------------- ChunkTypeError --------------------------- *)

ByteLengthError(n) == [kind |-> "ByteLengthError", len |-> n]

InvalidCharacter == [kind |-> "InvalidCharacter"]

(* ------------------------ std: bytes and UTF-8 ------------------------ *)

\* u8::is_ascii_uppercase: matches!(b, b'A'..=b'Z').
is_ascii_uppercase(b) == b >= 65 /\ b <= 90

\* u8::is_ascii_lowercase: matches!(b, b'a'..=b'z').
is_ascii_lowercase(b) == b >= 97 /\ b <= 122

\* The UTF-8 encoding of one Unicode scalar value.
encode_utf8(c) ==
    IF c < 128 THEN <<c>>
    ELSE IF c < 2048 THEN <<192 + (c \div 64), 128 + (c % 64)>>
    ELSE IF c < 65536 THEN
        <<224 + (c \div 4096), 128 + ((c \div 64) % 64), 128 + (c % 64)>>
    ELSE <<240 + (c \div 262144), 128 + ((c \div 4096) % 64),
           128 + ((c \div 64) % 64), 128 + (c % 64)>>

\* str::as_bytes: the UTF-8 bytes of the text, character after character.
RECURSIVE as_bytes(_)
as_bytes(s) ==
    IF s = <<>> THEN <<>> ELSE encode_utf8(Head(s)) \o as_bytes(Tail(s))

\* A UTF-8 continuation byte, 0x80..0xBF.
IsCont(b) == b >= 128 /\ b <= 191

\* The length of the UTF-8 sequence a first byte announces (0: no sequence
\* starts with it), as in core's UTF8_CHAR_WIDTH.
utf8_char_width(b) ==
    IF b < 128 THEN 1
    ELSE IF b >= 194 /\ b <= 223 THEN 2
    ELSE IF b >= 224 /\ b <= 239 THEN 3
    ELSE IF b >= 240 /\ b <= 244 THEN 4
    ELSE 0

\* Whether x starts with one well-formed sequence of w bytes (core's
\* run_utf8_validation: overlong forms, surrogates and values above
\* U+10FFFF are rejected by the range of the second byte).
WellFormedAt(x, w) ==
    /\ w >= 1
    /\ Len(x) >= w
    /\ w = 2 => IsCont(x[2])
    /\ w = 3 =>
        /\ \/ x[1] = 224 /\ x[2] >= 160 /\ x[2] <= 191
           \/ x[1] >= 225 /\ x[1] <= 236 /\ IsCont(x[2])
           \/ x[1] = 237 /\ x[2] >= 128 /\ x[2] <= 159
           \/ x[1] >= 238 /\ x[1] <= 239 /\ IsCont(x[2])
        /\ IsCont(x[3])
    /\ w = 4 =>
        /\ \/ x[1] = 240 /\ x[2] >= 144 /\ x[2] <= 191
           \/ x[1] >= 241 /\ x[1] <= 243 /\ IsCont(x[2])
           \/ x[1] = 244 /\ x[2] >= 128 /\ x[2] <= 143
        /\ IsCont(x[3])
        /\ IsCont(x[4])

\* The scalar value of the well-formed sequence of w bytes x starts with.
decode_char(x, w) ==
    IF w = 1 THEN x[1]
    ELSE IF w = 2 THEN (x[1] - 192) * 64 + (x[2] - 128)
    ELSE IF w = 3 THEN
        (x[1] - 224) * 4096 + (x[2] - 128) * 64 + (x[3] - 128)
    ELSE (x[1] - 240) * 262144 + (x[2] - 128) * 4096
         + (x[3] - 128) * 64 + (x[4] - 128)

\* str::from_utf8: Ok(the text) when the bytes are well-formed UTF-8, an
\* Err otherwise.
RECURSIVE from_utf8(_)
from_utf8(x) ==
    IF x = <<>> THEN Ok(<<>>)
    ELSE LET w == utf8_char_width(x[1]) IN
         IF ~WellFormedAt(x, w) THEN Err("Utf8Error")
         ELSE LET rest == from_utf8(SubSeq(x, w + 1, Len(x))) IN
              IF rest.tag = "Err" THEN rest
              ELSE Ok(<<decode_char(x, w)>> \o rest.val)

\* &self.data as a slice.
AsSlice(data) == <<data[0], data[1], data[2], data[3]>>

(* ------------------------------ ChunkType ----------------------------- *)

ChunkType(data) == [data |-> data]

is_critical(self) == is_ascii_uppercase(self.data[0])

is_public(self) == is_ascii_uppercase(self.data[1])

is_reserved_bit_valid(self) == is_ascii_uppercase(self.data[2])

\* Mutant: validity that also asks for four letters.
is_valid_all_letters(self) ==
    /\ is_reserved_bit_valid(self)
    /\ \A i \in Idx :
        is_ascii_uppercase(self.data[i]) \/ is_ascii_lowercase(self.data[i])

is_valid(self) == is_reserved_bit_valid(self)

\* Mutant: "not uppercase" taken for "lowercase".
is_safe_to_copy_not_upper(self) == ~is_ascii_uppercase(self.data[3])

is_safe_to_copy(self) == is_ascii_lowercase(self.data[3])

bytes(self) == self.data

\* Mutant: `any` written for `all`.
is_valid_chunk_ascii_any(x) ==
    \E i \in 1..Len(x) :
        (x[i] >= 97 /\ x[i] <= 122) \/ (x[i] >= 65 /\ x[i] <= 90)

is_valid_chunk_ascii(x) ==
    \A i \in 1..Len(x) :
        (x[i] >= 97 /\ x[i] <= 122) \/ (x[i] >= 65 /\ x[i] <= 90)

\* Mutant: the raw constructor validates like the text one.
try_from_checked(b) ==
    IF is_valid_chunk_ascii(<<b[0], b[1], b[2], b[3]>>)
    THEN Ok(ChunkType(b))
    ELSE Err(InvalidCharacter)

\* impl TryFrom<[u8; 4]>: wraps the bytes, never fails.
try_from(b) == Ok(ChunkType(b))

\* Mutant: bytes[2] copied twice into the array.
from_str_index_slip(s) ==
    LET raw == as_bytes(s) IN
    IF Len(raw) # 4 THEN Err(ByteLengthError(Len(raw)))
    ELSE IF ~is_valid_chunk_ascii(raw) THEN Err(InvalidCharacter)
    ELSE try_from([i \in Idx |-> IF i = 3 THEN raw[3] ELSE raw[i + 1]])

\* Mutant: the characters are validated before the length.
from_str_chars_first(s) ==
    LET raw == as_bytes(s) IN
    IF ~is_valid_chunk_ascii(raw) THEN Err(InvalidCharacter)
    ELSE IF Len(raw) # 4 THEN Err(ByteLengthError(Len(raw)))
    ELSE try_from([i \in Idx |-> raw[i + 1]])

\* impl FromStr.
from_str(s) ==
    LET raw == as_bytes(s) IN
    IF Len(raw) # 4 THEN Err(ByteLengthError(Len(raw)))
    ELSE IF ~is_valid_chunk_ascii(raw) THEN Err(InvalidCharacter)
    ELSE LET sized == [i \in Idx |-> raw[i + 1]] IN try_from(sized)

\* Mutant: every byte above 0x7F is a fault.
to_string_ascii_only(self) ==
    IF \E i \in Idx : self.data[i] > 127 THEN Panic
    ELSE Ok(<<self.data[0], self.data[1], self.data[2], self.data[3]>>)

\* impl Display, through ToString::to_string: from_utf8(..).unwrap()
\* panics on an Err, otherwise the decoded text is written out.
to_string(self) ==
    LET r == from_utf8(AsSlice(self.data)) IN
    IF r.tag = "Err" THEN Panic ELSE Ok(r.val)

\* Mutant: the last byte is left out of the comparison.
eq_first_three(a, b) == \A i \in 0..2 : a.data[i] = b.data[i]

\* #[derive(PartialEq)]: the data arrays are compared element by element.
eq(a, b) == \A i \in Idx : a.data[i] = b.data[i]

(* ------------------------------ the client ---------------------------- *)

Init ==
    /\ chunk = None
    /\ src = NoCall
    /\ other = None
    /\ osrc = NoCall
    /\ last = NoCall

Built(r) == IF r.tag = "Ok" THEN Some(r.val) ELSE None

\* ChunkType::try_from(b) for a raw 4-byte input.
TryFrom ==
    /\ src = NoCall
    /\ \E b \in ByteArrays :
        LET r == try_from(b) IN
        /\ src' = [op |-> "try_from", arg |-> b, ret |-> r]
        /\ chunk' = Built(r)
    /\ UNCHANGED <<other, osrc, last>>

\* ChunkType::from_str(s) for a text token.
FromStr ==
    /\ src = NoCall
    /\ \E s \in Texts :
        LET r == from_str(s) IN
        /\ src' = [op |-> "from_str", arg |-> s, ret |-> r]
        /\ chunk' = Built(r)
    /\ UNCHANGED <<other, osrc, last>>

CanCall == chunk # None /\ osrc = NoCall

Call(op, ret) ==
    /\ CanCall
    /\ last' = [op |-> op, ret |-> ret]
    /\ UNCHANGED <<chunk, src, other, osrc>>

IsCritical == CanCall /\ Call("is_critical", is_critical(chunk.val))

IsPublic == CanCall /\ Call("is_public", is_public(chunk.val))

IsReservedBitValid ==
    CanCall /\ Call("is_reserved_bit_valid", is_reserved_bit_valid(chunk.val))

IsValid == CanCall /\ Call("is_valid", is_valid(chunk.val))

IsSafeToCopy == CanCall /\ Call("is_safe_to_copy", is_safe_to_copy(chunk.val))

Bytes == CanCall /\ Call("bytes", bytes(chunk.val))

ToString == CanCall /\ Call("to_string", to_string(chunk.val))

\* The first input with at most one position replaced.
Variants(data) ==
    {[data EXCEPT ![i] = b] : i \in Idx, b \in CmpBytes} \cup {data}

CanBuildOther == chunk # None /\ last = NoCall /\ osrc = NoCall

\* A second identifier from raw bytes.
OtherTryFrom ==
    /\ CanBuildOther
    /\ \E b \in Variants(chunk.val.data) :
        LET r == try_from(b) IN
        /\ osrc' = [op |-> "try_from", arg |-> b, ret |-> r]
        /\ other' = Built(r)
    /\ UNCHANGED <<chunk, src, last>>

\* A second identifier from text: the characters whose codes are the
\* variant's bytes (an ASCII character's encoding is its own code).
OtherFromStr ==
    /\ CanBuildOther
    /\ \A i \in Idx : chunk.val.data[i] < 128
    /\ \E b \in Variants(chunk.val.data) :
        LET s == AsSlice(b)
            r == from_str(s) IN
        /\ osrc' = [op |-> "from_str", arg |-> s, ret |-> r]
        /\ other' = Built(r)
    /\ UNCHANGED <<chunk, src, last>>

\* chunk == other.
Eq ==
    /\ chunk # None
    /\ other # None
    /\ last = NoCall
    /\ last' = [op |-> "eq", ret |-> eq(chunk.val, other.val)]
    /\ UNCHANGED <<chunk, src, other, osrc>>

Next ==
    \/ TryFrom
    \/ FromStr
    \/ IsCritical
    \/ IsPublic
    \/ IsReservedBitValid
    \/ IsValid
    \/ IsSafeToCopy
    \/ Bytes
    \/ ToString
    \/ OtherTryFrom
    \/ OtherFromStr
    \/ Eq

Spec == Init /\ [][Next]_vars

(* --------------------------- the properties --------------------------- *)

UpperLetters == {65 + k : k \in 0..25}

LowerLetters == {97 + k : k \in 0..25}

AsciiLetters == UpperLetters \cup LowerLetters

\* The number of bytes a character takes in the text's encoding.
CharWidth(c) ==
    IF c <= 127 THEN 1 ELSE IF c <= 2047 THEN 2 ELSE IF c <= 65535 THEN 3 ELSE 4

\* The length of a text token, in encoded bytes.
RECURSIVE EncodedLen(_)
EncodedLen(s) ==
    IF s = <<>> THEN 0 ELSE CharWidth(Head(s)) + EncodedLen(Tail(s))

\* A text token of exactly 4 ASCII letters.
IsFourLetters(s) == Len(s) = 4 /\ \A i \in 1..4 : s[i] \in AsciiLetters

\* A token with a character that is no ASCII letter: one of its bytes is
\* then outside A-Z and a-z (every byte of a multi-byte character is
\* above 0x7F).
HasNonLetter(s) == \E i \in 1..Len(s) : s[i] \notin AsciiLetters

\* Bit 5 (0x20) of a byte.
Bit5Set(b) == (b \div 32) % 2 = 1

Data == chunk.val.data

\* The scalar values whose encodings can be made of SampleBytes: the ASCII
\* range and the two-byte range up to U+00FF (lead bytes C2 and C3).
Latin1Scalars == 0..255

\* Whether the bytes x are the encoding of some text.
RECURSIVE IsEncodingOfText(_)
IsEncodingOfText(x) ==
    \/ x = <<>>
    \/ \E c \in Latin1Scalars :
        LET e == encode_utf8(c) IN
        /\ Len(e) <= Len(x)
        /\ SubSeq(x, 1, Len(e)) = e
        /\ IsEncodingOfText(SubSeq(x, Len(e) + 1, Len(x)))

\* C1 (round trip): from_str of a token of exactly 4 ASCII letters
\* succeeds, and to_string() of the identifier it built returns that token.
RoundTrip ==
    (src.op = "from_str" /\ IsFourLetters(src.arg)) =>
        /\ src.ret.tag = "Ok"
        /\ chunk # None
        /\ last.op = "to_string" => last.ret = Ok(src.arg)

RoundTripWitness ==
    /\ src.op = "from_str"
    /\ IsFourLetters(src.arg)
    /\ \E i \in 1..4 : src.arg[i] # src.arg[1]
    /\ last.op = "to_string"
    /\ last.ret = Ok(src.arg)

\* C2 (length validation): from_str of a token whose encoded length is not
\* 4 bytes fails with ByteLengthError(that length), also when the token has
\* non-letter bytes, and builds no identifier.
LengthValidation ==
    (src.op = "from_str" /\ EncodedLen(src.arg) # 4) =>
        /\ src.ret = Err(ByteLengthError(EncodedLen(src.arg)))
        /\ chunk = None

LengthValidationWitness ==
    /\ src.op = "from_str"
    /\ Len(src.arg) = 4
    /\ EncodedLen(src.arg) > 4
    /\ HasNonLetter(src.arg)
    /\ src.ret = Err(ByteLengthError(EncodedLen(src.arg)))

\* C3 (character validation): from_str of a token that encodes exactly 4
\* bytes, one of them outside A-Z and a-z, fails with InvalidCharacter and
\* builds no identifier.
CharacterValidation ==
    (src.op = "from_str" /\ EncodedLen(src.arg) = 4 /\ HasNonLetter(src.arg)) =>
        /\ src.ret = Err(InvalidCharacter)
        /\ chunk = None

CharacterValidationWitness ==
    /\ src.op = "from_str"
    /\ Len(src.arg) < 4
    /\ EncodedLen(src.arg) = 4
    /\ \E i \in 1..Len(src.arg) : src.arg[i] \in AsciiLetters
    /\ src.ret = Err(InvalidCharacter)
    /\ chunk = None

\* C4 (flag correctness): is_critical, is_public and is_reserved_bit_valid
\* return whether byte 0, 1 and 2 is in A-Z, is_safe_to_copy whether byte 3
\* is in a-z, and none of them changes when another byte is replaced.
FlagCorrectness ==
    chunk # None =>
        /\ last.op = "is_critical" => last.ret = (Data[0] \in UpperLetters)
        /\ last.op = "is_public" => last.ret = (Data[1] \in UpperLetters)
        /\ last.op = "is_reserved_bit_valid" =>
            last.ret = (Data[2] \in UpperLetters)
        /\ last.op = "is_safe_to_copy" => last.ret = (Data[3] \in LowerLetters)
        /\ \A j \in Idx, b \in SampleBytes :
            LET c2 == ChunkType([Data EXCEPT ![j] = b]) IN
            /\ j # 0 => is_critical(c2) = is_critical(chunk.val)
            /\ j # 1 => is_public(c2) = is_public(chunk.val)
            /\ j # 2 => is_reserved_bit_valid(c2) = is_reserved_bit_valid(chunk.val)
            /\ j # 3 => is_safe_to_copy(c2) = is_safe_to_copy(chunk.val)

FlagCorrectnessWitness ==
    /\ chunk # None
    /\ src.op = "try_from"
    /\ Data[3] \notin AsciiLetters
    /\ Data[0] \in LowerLetters
    /\ last.op = "is_safe_to_copy"
    /\ last.ret = FALSE

\* C5 (equality): two identifiers are equal iff their data arrays are the
\* same, whichever constructor built each; from_str(s) equals try_from of
\* the 4 bytes of s.
Equality ==
    last.op = "eq" =>
        /\ last.ret = (Data = other.val.data)
        /\ (/\ src.op = "from_str"
            /\ osrc.op = "try_from"
            /\ as_bytes(src.arg) = AsSlice(osrc.arg)) => last.ret
        /\ (/\ src.op = "try_from"
            /\ osrc.op = "from_str"
            /\ as_bytes(osrc.arg) = AsSlice(src.arg)) => last.ret

EqualityWitness ==
    /\ last.op = "eq"
    /\ src.op = "from_str"
    /\ osrc.op = "try_from"
    /\ as_bytes(src.arg) = AsSlice(osrc.arg)
    /\ last.ret

\* C6 (raw construction): try_from succeeds for every 4-byte input, letters
\* or not, and bytes() of the identifier returns the input bytes in order.
RawConstruction ==
    src.op = "try_from" =>
        /\ src.ret.tag = "Ok"
        /\ chunk # None
        /\ last.op = "bytes" =>
            \A i \in Idx : last.ret[i] = src.arg[i]

RawConstructionWitness ==
    /\ src.op = "try_from"
    /\ \A i \in Idx : src.arg[i] \notin AsciiLetters
    /\ src.arg[0] # src.arg[3]
    /\ last.op = "bytes"
    /\ last.ret = src.arg

\* C7 (alphabetic invariant): every identifier that exists, built by either
\* constructor, has its 4 bytes in A-Z or a-z.
AlphabeticInvariant ==
    /\ chunk # None => \A i \in Idx : Data[i] \in AsciiLetters
    /\ other # None => \A i \in Idx : other.val.data[i] \in AsciiLetters

\* C8 (case-bit encoding): each flag is bit 5 of its byte: is_critical,
\* is_public and is_reserved_bit_valid hold iff bit 5 of byte 0, 1 and 2 is
\* clear, is_safe_to_copy iff bit 5 of byte 3 is set.
CaseBitEncoding ==
    chunk # None =>
        /\ last.op = "is_critical" => last.ret = ~Bit5Set(Data[0])
        /\ last.op = "is_public" => last.ret = ~Bit5Set(Data[1])
        /\ last.op = "is_reserved_bit_valid" => last.ret = ~Bit5Set(Data[2])
        /\ last.op = "is_safe_to_copy" => last.ret = Bit5Set(Data[3])

\* C9 (validity equivalence): is_valid() returns what
\* is_reserved_bit_valid() returns, for identifiers of either constructor.
ValidityEquivalence ==
    (chunk # None /\ last.op = "is_valid") =>
        last.ret = is_reserved_bit_valid(chunk.val)

ValidityEquivalenceWitness ==
    /\ chunk # None
    /\ src.op = "try_from"
    /\ \E i \in Idx : Data[i] \notin AsciiLetters
    /\ last.op = "is_valid"
    /\ last.ret

\* C10 as stated (to_text fault): to_string() of an identifier built by
\* try_from with a byte below 0x20 or above 0x7E panics.
ToTextFault ==
    (/\ src.op = "try_from"
     /\ last.op = "to_string"
     /\ \E i \in Idx : Data[i] < 32 \/ Data[i] > 126) =>
        last.ret = Panic

\* C10 as amended: to_string() panics iff the 4 bytes are not the UTF-8
\* encoding of a text, which takes a byte above 0x7F; an identifier whose
\* bytes are all at most 0x7F, control bytes included, is returned as the
\* text of the 4 characters with those codes.
ToTextFaultUtf8 ==
    (chunk # None /\ last.op = "to_string") =>
        /\ (last.ret = Panic) = ~IsEncodingOfText(AsSlice(Data))
        /\ (\A i \in Idx : Data[i] <= 127) => last.ret = Ok(AsSlice(Data))
        /\ last.ret # Panic => as_bytes(last.ret.val) = AsSlice(Data)

ToTextFaultUtf8Witness ==
    /\ src.op = "try_from"
    /\ last.op = "to_string"
    /\ \E i \in Idx : Data[i] > 126
    /\ last.ret = Panic

\* The text of an identifier with a well-formed multi-byte sequence.
ToTextMultiByteWitness ==
    /\ src.op = "try_from"
    /\ last.op = "to_string"
    /\ \E i \in Idx : Data[i] > 127
    /\ last.ret # Panic

====
